---- MODULE Spec2Model ----
(***************************************************************************)
(* A model of web_scraper.py: the browser-driven crawl of the paginated    *)
(* card listing, the assignment of IDs, the thread-pool download of the    *)
(* videos and the writing of the manifest CSV.                             *)
(***************************************************************************)
EXTENDS Integers, Sequences, FiniteSets, TLC

\* ---------------------------------------------------------------- bounds
\* The largest page number the pagination controls of the modelled site show.
MaxPages == 2
\* The largest number of cards find_elements returns for one page.
MaxCards == 2
\* The largest number of pairs a crawl of the modelled site collects.
MaxEntries == 3
\* An earlier run may have left the files of the IDs 1..MaxEarlier behind.
MaxEarlier == 1
\* The number of entries the pool specification starts with.
PoolN == 6

\* ------------------------------------------------------- program constants
MAX_THREADS == 5
BASE_URL == [scheme |-> "https", netloc |-> "qipedc.moet.gov.vn", path |-> "/dictionary", query |-> ""]
VIDEO_DIR == <<"Dataset", "/", "Videos">>
HEADER == <<<<"I", "D">>, <<"V", "I", "D", "E", "O">>, <<"L", "A", "B", "E", "L">>>>
\* a Python value that is None or a text: None has present = FALSE
NoneValue == [present |-> FALSE, chars |-> <<>>]
Text(s) == [present |-> TRUE, chars |-> s]
DigitChars == <<"0", "1", "2", "3", "4", "5", "6", "7", "8", "9">>

\* ------------------------------------------------------------ pure helpers
RECURSIVE lstrip(_)
lstrip(s) == IF s # <<>> /\ Head(s) = " " THEN lstrip(Tail(s)) ELSE s

RECURSIVE rstrip(_)
rstrip(s) == IF s # <<>> /\ s[Len(s)] = " " THEN rstrip(SubSeq(s, 1, Len(s) - 1)) ELSE s

\* (label_el.text or "").strip(); an absent text is None
strip_label(text) == IF ~text.present THEN <<>> ELSE rstrip(lstrip(text.chars))

\* urlunsplit((parts.scheme, parts.netloc, parts.path, '', ''))
clean_src(src) == [scheme |-> src.scheme, netloc |-> src.netloc, path |-> src.path, query |-> ""]

\* urljoin(BASE_URL, link)
urljoin(base, link) ==
    IF link.scheme # "" THEN link
    ELSE IF link.netloc # "" THEN [link EXCEPT !.scheme = base.scheme]
    ELSE [scheme |-> base.scheme, netloc |-> base.netloc, path |-> link.path, query |-> link.query]

RECURSIVE Digits(_)
Digits(i) == IF i < 10 THEN <<DigitChars[i + 1]>> ELSE Digits(i \div 10) \o <<DigitChars[(i % 10) + 1]>>

RECURSIVE ZeroPad(_, _)
ZeroPad(s, w) == IF Len(s) >= w THEN s ELSE ZeroPad(<<"0">> \o s, w)

\* the IDs numbered from 0, as enumerate does without start=1
vid_idFromZero(i) == <<"D">> \o ZeroPad(Digits(i - 1), 4)

\* f"D{i:04d}"
vid_id(i) == <<"D">> \o ZeroPad(Digits(i), 4)

\* the file named after the first four characters of the ID only
filename_ofTruncated(id) == SubSeq(id, 1, 4) \o <<".", "m", "p", "4">>

\* f"{vid_id}.mp4"
filename_of(id) == id \o <<".", "m", "p", "4">>

\* os.path.join(VIDEO_DIR, filename)
save_path(filename) == VIDEO_DIR \o <<"/">> \o filename

\* val and val.isdigit()
IsDigitValue(v) ==
    /\ v.present
    /\ v.chars # <<>>
    /\ \A k \in 1..Len(v.chars) : \E d \in 1..10 : DigitChars[d] = v.chars[k]

DigitOf(c) == (CHOOSE d \in 1..10 : DigitChars[d] = c) - 1

\* int(val)
RECURSIVE int(_)
int(chars) == IF chars = <<>> THEN 0 ELSE 10 * int(SubSeq(chars, 1, Len(chars) - 1)) + DigitOf(chars[Len(chars)])

Max(S) == CHOOSE m \in S : \A x \in S : x <= m

\* get_last_page_number: the first digit value of a Last button, else the
\* largest digit value of the page buttons, else 1; 1 when the wait raises
get_last_page_number(wait_ok, last_btns, page_btns) ==
    IF ~wait_ok THEN 1
    ELSE LET lastIdx == {k \in 1..Len(last_btns) : IsDigitValue(last_btns[k])}
             nums == {int(page_btns[k].chars) : k \in {j \in 1..Len(page_btns) : IsDigitValue(page_btns[j])}}
         IN IF lastIdx # {} THEN int(last_btns[CHOOSE k \in lastIdx : \A j \in lastIdx : k <= j].chars)
            ELSE IF nums # {} THEN Max(nums) ELSE 1

\* ------------------------------------------------------------ input sets
\* the value attribute of a pagination button: absent, a non-digit text or a page number
ButtonValues == {NoneValue, Text(<<"a">>), Text(<<>>)} \cup {Text(Digits(n)) : n \in 0..MaxPages}
ButtonLists == {<<>>} \cup {<<v>> : v \in ButtonValues} \cup {<<v, w>> : v \in {NoneValue, Text(<<"1">>)}, w \in ButtonValues}

SrcAbsolute == [scheme |-> "https", netloc |-> "qipedc.moet.gov.vn", path |-> "/videos/a.mp4", query |-> "autoplay=true"]
SrcRelative == [scheme |-> "", netloc |-> "", path |-> "/videos/b.mp4", query |-> ""]
\* what a card of the grid does when it is handled: the step it fails at, if
\* any, the text of its <p> and the src its modal's iframe gets
Cards == { [fails |-> f, text |-> NoneValue, src |-> SrcRelative] : f \in {"label", "modal", "src"} }
           \cup { [fails |-> "no", text |-> Text(<<" ", "a", " ">>), src |-> SrcAbsolute],
                  [fails |-> "no", text |-> NoneValue, src |-> SrcRelative] }
CardLists == UNION { [1..n -> Cards] : n \in 0..MaxCards }
\* the cards of cs that yield a pair
Working(cs) == {k \in 1..Len(cs) : cs[k].fails = "no"}

\* ------------------------------------------------------------------ state
VARIABLES
    pc,          \* the main thread's position in the script
    driver_open, \* the browser is running (until driver.quit())
    last_page,   \* last_page
    page,        \* the loop variable of the page loop
    cards,       \* the cards of the page being crawled (with their behaviour)
    idx,         \* how many cards of the page have been handled
    page_data,   \* crawl_page's page_data
    all_data,    \* all_data
    entries,     \* entries
    futures,     \* futures: per submitted task, where its download_video call is
    yielded,     \* the futures as_completed has handed to the main loop
    results,     \* results
    files,       \* the video directory: path -> content
    manifest,    \* the file at LABEL_PATH: a sequence of rows, <<>> when absent
    gets,        \* per task, the session.get calls made for it
    writers      \* per path, the tasks that opened it for writing

vars == <<pc, driver_open, last_page, page, cards, idx, page_data, all_data, entries,
          futures, yielded, results, files, manifest, gets, writers>>

crawlVars == <<last_page, page, cards, idx, page_data, all_data>>
poolVars == <<futures, yielded, results, gets, writers>>

\* the rows and files an earlier run left for the IDs in S
EarlierRow(i) == <<vid_id(i), filename_of(vid_id(i)), <<"o", "l", "d">>>>
EarlierFiles(S) == [p \in {save_path(filename_of(vid_id(i))) : i \in S} |-> "earlier"]
RECURSIVE EarlierRows(_)
EarlierRows(S) == IF S = {} THEN <<>> ELSE LET m == Max(S) IN Append(EarlierRows(S \ {m}), EarlierRow(m))

Init ==
    /\ pc = "start"
    /\ driver_open = TRUE
    /\ last_page = 0
    /\ page = 0
    /\ cards = <<>>
    /\ idx = 0
    /\ page_data = <<>>
    /\ all_data = <<>>
    /\ entries = <<>>
    /\ futures = <<>>
    /\ yielded = {}
    /\ results = <<>>
    /\ gets = <<>>
    /\ writers = << >>
    /\ \E S \in SUBSET (1..MaxEarlier) :
          /\ files = EarlierFiles(S)
          /\ manifest = IF S = {} THEN <<>> ELSE <<HEADER>> \o EarlierRows(S)

\* ------------------------------------------------------------- the crawl
\* last_page = get_last_page_number(); the page loop starts at page 1
GetLastPage ==
    /\ pc = "start"
    /\ \E wait_ok \in BOOLEAN, last_btns \in ButtonLists, page_btns \in ButtonLists :
          last_page' = get_last_page_number(wait_ok, last_btns, page_btns)
    /\ page' = 1
    /\ pc' = "loop"
    /\ UNCHANGED <<driver_open, cards, idx, page_data, all_data, entries, files, manifest>>
    /\ UNCHANGED poolVars

\* page > 1 and go_to_page(page) returns False: continue
GoToPageFails ==
    /\ pc = "loop"
    /\ page <= last_page
    /\ page > 1
    /\ page' = page + 1
    /\ UNCHANGED <<pc, driver_open, last_page, cards, idx, page_data, all_data, entries, files, manifest>>
    /\ UNCHANGED poolVars

\* crawl_page's exception not caught by the page loop: the script ends
CrawlPageRaisesUncaught ==
    /\ pc = "loop"
    /\ page <= last_page
    /\ pc' = "crashed"
    /\ UNCHANGED <<driver_open, last_page, page, cards, idx, page_data, all_data, entries, files, manifest>>
    /\ UNCHANGED poolVars

\* the page is reached, but crawl_page raises before its card loop (the wait
\* for the grid, find_elements): caught by the page loop, save_debug_page
CrawlPageRaises ==
    /\ pc = "loop"
    /\ page <= last_page
    /\ page' = page + 1
    /\ UNCHANGED <<pc, driver_open, last_page, cards, idx, page_data, all_data, entries, files, manifest>>
    /\ UNCHANGED poolVars

\* the page is reached and crawl_page finds its cards
CrawlPageBegins ==
    /\ pc = "loop"
    /\ page <= last_page
    /\ \E cs \in CardLists :
          /\ Len(all_data) + Cardinality(Working(cs)) <= MaxEntries
          /\ cards' = cs
    /\ idx' = 0
    /\ page_data' = <<>>
    /\ pc' = "cards"
    /\ UNCHANGED <<driver_open, last_page, page, all_data, entries, files, manifest>>
    /\ UNCHANGED poolVars

\* the pair a card yields, as page_data holds it; at is where the card stood
\* (page, index of enumerate), which the script does not store
PairOf(card, p, i) == [label |-> strip_label(card.text), link |-> clean_src(card.src), at |-> <<p, i>>]

\* the (label, clean_src) tuples of page_data, as all_data holds them
DataOf(data) == [k \in 1..Len(data) |-> [label |-> data[k].label, link |-> data[k].link]]

\* a failing card discards the pairs of the page collected before it
HandleCardAbort(data, card, p, i) == IF card.fails = "no" THEN Append(data, PairOf(card, p, i)) ELSE <<>>

\* one iteration of crawl_page's card loop
HandleCard(data, card, p, i) == IF card.fails = "no" THEN Append(data, PairOf(card, p, i)) ELSE data

CardStep ==
    /\ pc = "cards"
    /\ idx < Len(cards)
    /\ page_data' = HandleCard(page_data, cards[idx + 1], page, idx)
    /\ idx' = idx + 1
    /\ UNCHANGED <<pc, driver_open, last_page, page, cards, all_data, entries, files, manifest>>
    /\ UNCHANGED poolVars

\* return page_data; all_data.extend(data)
CrawlPageReturns ==
    /\ pc = "cards"
    /\ idx = Len(cards)
    /\ all_data' = all_data \o DataOf(page_data)
    /\ page' = page + 1
    /\ cards' = <<>>
    /\ idx' = 0
    /\ page_data' = <<>>
    /\ pc' = "loop"
    /\ UNCHANGED <<driver_open, last_page, entries, files, manifest>>
    /\ UNCHANGED poolVars

\* the page loop has ended: driver.quit()
Quit ==
    /\ pc = "loop"
    /\ page > last_page
    /\ driver_open' = FALSE
    /\ pc' = "assign"
    /\ UNCHANGED <<entries, files, manifest>>
    /\ UNCHANGED crawlVars
    /\ UNCHANGED poolVars

\* ------------------------------------------------------------ ID assignment
EntryOf(i, pair) ==
    [vid_id |-> vid_id(i), url |-> urljoin(BASE_URL, pair.link), label |-> pair.label,
     filename |-> filename_of(vid_id(i))]

AssignIds ==
    /\ pc = "assign"
    /\ entries' = [i \in 1..Len(all_data) |-> EntryOf(i, all_data[i])]
    /\ pc' = "pool"
    /\ UNCHANGED <<driver_open, files, manifest>>
    /\ UNCHANGED crawlVars
    /\ UNCHANGED poolVars

\* ------------------------------------------------------------ the downloads
Tasks == 1..Len(futures)
Running == {i \in Tasks : futures[i].st \in {"get", "stream"}}
Finished == {i \in Tasks : futures[i].st = "done"}

\* a pool that starts a thread per task
WorkerFreeAlways(running) == TRUE

\* a worker of the pool is free to take a task
WorkerFree(running) == Cardinality(running) < MAX_THREADS

\* executor.submit(download_video, e), for the next entry
Submit ==
    /\ pc = "pool"
    /\ Len(futures) < Len(entries)
    /\ futures' = Append(futures, [st |-> "queued", res |-> <<>>])
    /\ gets' = Append(gets, 0)
    /\ UNCHANGED <<pc, driver_open, entries, yielded, results, files, manifest, writers>>
    /\ UNCHANGED crawlVars

\* a free worker takes the oldest queued task and calls download_video
Start(i) ==
    /\ futures[i].st = "queued"
    /\ \A j \in 1..(i - 1) : futures[j].st # "queued"
    /\ WorkerFree(Running)
    /\ futures' = [futures EXCEPT ![i].st = "get"]
    /\ UNCHANGED <<pc, driver_open, entries, yielded, results, files, manifest, gets, writers>>
    /\ UNCHANGED crawlVars

\* a failing GET is tried a second time
GetFailsRetry(i) ==
    /\ futures[i].st = "get"
    /\ gets[i] < 2
    /\ gets' = [gets EXCEPT ![i] = @ + 1]
    /\ UNCHANGED <<pc, driver_open, entries, futures, yielded, results, files, manifest, writers>>
    /\ UNCHANGED crawlVars

\* session.get raises, raise_for_status raises or open raises: return None
GetFails(i) ==
    /\ futures[i].st = "get"
    /\ gets' = [gets EXCEPT ![i] = @ + 1]
    /\ futures' = [futures EXCEPT ![i] = [st |-> "done", res |-> <<>>]]
    /\ UNCHANGED <<pc, driver_open, entries, yielded, results, files, manifest, writers>>
    /\ UNCHANGED crawlVars

\* the tasks recorded as having opened path p
WritersOf(w, p) == IF p \in DOMAIN w THEN w[p] ELSE {}

\* the GET and the status check pass; open(save_path, "wb") creates or
\* truncates the file
OpenFile(i) ==
    /\ futures[i].st = "get"
    /\ gets' = [gets EXCEPT ![i] = @ + 1]
    /\ LET p == save_path(entries[i].filename)
       IN /\ files' = (p :> "open") @@ files
          /\ writers' = (p :> (WritersOf(writers, p) \cup {i})) @@ writers
    /\ futures' = [futures EXCEPT ![i].st = "stream"]
    /\ UNCHANGED <<pc, driver_open, entries, yielded, results, manifest>>
    /\ UNCHANGED crawlVars

\* every chunk is written and the file closed: return (vid_id, filename, label)
StreamDone(i) ==
    /\ futures[i].st = "stream"
    /\ files' = [files EXCEPT ![save_path(entries[i].filename)] = "full"]
    /\ futures' = [futures EXCEPT ![i] =
          [st |-> "done", res |-> <<entries[i].vid_id, entries[i].filename, entries[i].label>>]]
    /\ UNCHANGED <<pc, driver_open, entries, yielded, results, manifest, gets, writers>>
    /\ UNCHANGED crawlVars

\* iter_content or f.write raises: the with block closes the file as it
\* is, and download_video returns None
StreamRaises(i) ==
    /\ futures[i].st = "stream"
    /\ files' = [files EXCEPT ![save_path(entries[i].filename)] = "partial"]
    /\ futures' = [futures EXCEPT ![i] = [st |-> "done", res |-> <<>>]]
    /\ UNCHANGED <<pc, driver_open, entries, yielded, results, manifest, gets, writers>>
    /\ UNCHANGED crawlVars

\* the result appended without the test
CollectedAlways(rs, res) == Append(rs, res)

\* if res: results.append(res)
Collected(rs, res) == IF res # <<>> THEN Append(rs, res) ELSE rs

\* as_completed hands a finished future to the main loop
Collect(i) ==
    /\ pc = "pool"
    /\ Len(futures) = Len(entries)
    /\ i \in Finished \ yielded
    /\ yielded' = yielded \cup {i}
    /\ results' = Collected(results, futures[i].res)
    /\ UNCHANGED <<pc, driver_open, entries, futures, files, manifest, gets, writers>>
    /\ UNCHANGED crawlVars

\* the loop left at the first future taken
AllYieldedEarly(fs, ys) == ys # {} \/ fs = <<>>

\* as_completed is exhausted
AllYielded(fs, ys) == ys = 1..Len(fs)

\* the for loop ends and the with block shuts the executor down
ExitPool ==
    /\ pc = "pool"
    /\ Len(futures) = Len(entries)
    /\ AllYielded(futures, yielded)
    /\ pc' = "write"
    /\ UNCHANGED <<driver_open, entries, files, manifest>>
    /\ UNCHANGED crawlVars
    /\ UNCHANGED poolVars

\* ------------------------------------------------------------- the manifest
\* the manifest opened in append mode
WriteCsvAppend ==
    /\ pc = "write"
    /\ manifest' = (IF manifest = <<>> THEN <<HEADER>> ELSE manifest) \o results
    /\ pc' = "done"
    /\ UNCHANGED <<driver_open, entries, files>>
    /\ UNCHANGED crawlVars
    /\ UNCHANGED poolVars

\* open(LABEL_PATH, "w"); the header row, then the rows of results
WriteCsv ==
    /\ pc = "write"
    /\ manifest' = <<HEADER>> \o results
    /\ pc' = "done"
    /\ UNCHANGED <<driver_open, entries, files>>
    /\ UNCHANGED crawlVars
    /\ UNCHANGED poolVars

\* ------------------------------------------------------------ specifications
\* the steps of the worker that runs task i
WorkerStep(i) ==
    /\ i \in Tasks
    /\ (Start(i) \/ GetFails(i) \/ OpenFile(i) \/ StreamDone(i) \/ StreamRaises(i))

Worker == \E i \in Tasks : WorkerStep(i)

Main ==
    \/ GetLastPage
    \/ GoToPageFails
    \/ CrawlPageRaises
    \/ CrawlPageBegins
    \/ CardStep
    \/ CrawlPageReturns
    \/ Quit
    \/ AssignIds
    \/ Submit
    \/ \E i \in Tasks : Collect(i)
    \/ ExitPool
    \/ WriteCsv

Next == Main \/ Worker

Spec == Init /\ [][Next]_vars

\* a thread that can take a step eventually takes one: the main thread keeps
\* running (each browser wait returns or raises) and so do the workers (each
\* download attempt returns or raises)
Fairness == WF_vars(Main) /\ WF_vars(Worker)

FairSpec == Spec /\ Fairness

\* the state after the crawl of a one-page site of PoolN working cards
PoolCard == [fails |-> "no", text |-> Text(<<"a">>), src |-> SrcAbsolute]

InitPool ==
    /\ pc = "assign"
    /\ driver_open = FALSE
    /\ last_page = 1
    /\ page = 2
    /\ cards = <<>>
    /\ idx = 0
    /\ page_data = <<>>
    /\ all_data = DataOf([k \in 1..PoolN |-> PairOf(PoolCard, 1, k - 1)])
    /\ entries = <<>>
    /\ futures = <<>>
    /\ yielded = {}
    /\ results = <<>>
    /\ gets = <<>>
    /\ writers = << >>
    /\ files = << >>
    /\ manifest = <<>>

\* the pool on its own: the main thread assigns the IDs and submits the
\* entries, the workers run them; the workers read nothing of what the main
\* thread does with the finished futures
PoolNext == AssignIds \/ Submit \/ Worker

PoolSpec == InitPool /\ [][PoolNext]_vars /\ Fairness

\* ------------------------------------------------------------------ claims
Succeeded == {i \in Tasks : futures[i].st = "done" /\ futures[i].res # <<>>}
Failed == {i \in Tasks : futures[i].st = "done" /\ futures[i].res = <<>>}
RowOf(i) == <<entries[i].vid_id, entries[i].vid_id \o <<".", "m", "p", "4">>, entries[i].label>>
ManifestRows == IF manifest = <<>> THEN <<>> ELSE Tail(manifest)
PathOf(i) == save_path(entries[i].filename)

\* C1: when the run has finished, the manifest is the header row followed by
\* exactly one row (ID, ID.mp4, label) for each entry whose download returned
\* a record, and by no row for an entry whose download failed.
C1_ManifestRowsAreSuccesses ==
    pc = "done" =>
        /\ manifest # <<>>
        /\ Head(manifest) = HEADER
        /\ Len(ManifestRows) = Cardinality(Succeeded)
        /\ \A i \in Succeeded : \E k \in 1..Len(ManifestRows) : ManifestRows[k] = RowOf(i)
        /\ \A i \in Failed : \A k \in 1..Len(ManifestRows) : ManifestRows[k][1] # entries[i].vid_id

C1_Witness ==
    /\ pc = "done"
    /\ Succeeded # {}
    /\ Failed # {}
    /\ Len(results) >= 2
    /\ results[1][1] = entries[2].vid_id

\* the (label, link) tuples of the pairs in data
Tuples(data) == [k \in 1..Len(data) |-> <<data[k].label, data[k].link>>]

C2_State ==
    /\ \A k \in 1..Len(page_data) : page_data[k].at[1] = page
    /\ \A j, k \in 1..Len(page_data) : j < k => page_data[j].at[2] < page_data[k].at[2]
    /\ pc \in {"pool", "write", "done"} =>
          /\ Len(entries) = Len(all_data)
          /\ \A k \in 1..Len(entries) :
                /\ Head(entries[k].vid_id) = "D"
                /\ Len(entries[k].vid_id) >= 5
                /\ IsDigitValue(Text(Tail(entries[k].vid_id)))
                /\ int(Tail(entries[k].vid_id)) = k
                /\ entries[k].label = all_data[k].label
                /\ entries[k].url.path = all_data[k].link.path
          /\ \A j, k \in 1..Len(entries) : j # k => entries[j].vid_id # entries[k].vid_id

C2_Step ==
    /\ page' >= page
    /\ all_data' # all_data =>
          /\ Tuples(all_data') = Tuples(all_data) \o Tuples(page_data)
          /\ page' = page + 1
    /\ pc \in {"pool", "write", "done"} => (all_data' = all_data /\ entries' = entries)

\* C2: the pairs are collected in crawl order (the pairs of a page are taken
\* in card order and appended to those of the pages before it, and the page
\* number only grows), and once the IDs are assigned the k-th collected pair
\* has the ID "D" followed by the number k in at least four digits, for
\* k = 1..n, so that no ID is skipped or repeated.
C2_IdsDenseInCrawlOrder == [](C2_State) /\ [][C2_Step]_vars

C2_Witness ==
    /\ pc = "pool"
    /\ last_page = 2
    /\ Len(entries) = 3
    /\ entries[1].label # entries[2].label
    /\ entries[3].vid_id = <<"D", "0", "0", "0", "3">>

\* C3: a download_video call that returned None has not opened its entry's
\* file for writing.
C3_NoFileForFailedDownload ==
    \A i \in Failed : i \notin WritersOf(writers, PathOf(i))

Kept == {k \in 1..idx : cards[k].fails = "no"}
IsPrefix(s, t) == Len(s) <= Len(t) /\ \A k \in 1..Len(s) : s[k] = t[k]

C5_CardsState ==
    pc = "cards" =>
        /\ Len(page_data) = Cardinality(Kept)
        /\ \A k \in 1..idx :
              (cards[k].fails = "no") <=> (\E m \in 1..Len(page_data) : page_data[m].at = <<page, k - 1>>)

C5_Step ==
    /\ (pc = "cards" /\ pc' = "cards") =>
          /\ idx' = idx + 1
          /\ page' = page
          /\ IsPrefix(page_data, page_data')
          /\ all_data' = all_data
          /\ (cards[idx'].fails # "no" => page_data' = page_data)
    /\ (pc = "cards" /\ pc' = "loop") => (Len(all_data') = Len(all_data) + Len(page_data) /\ page' = page + 1)
    /\ (pc = "loop" /\ pc' = "loop") => (all_data' = all_data /\ page' = page + 1 /\ page <= last_page)
    /\ (pc = "loop" /\ pc' = "cards") => (page' = page /\ page <= last_page /\ all_data' = all_data)
    /\ (pc = "loop" /\ pc' = "assign") => (page = last_page + 1 /\ all_data' = all_data)
    /\ (pc = "start") => page' = 1

\* C5: a card that fails adds no pair, the card loop goes on to the next card
\* and keeps the pairs collected so far; a page that is not reached or whose
\* crawl raises adds nothing, and the page loop takes the pages 1..last_page
\* one by one in ascending order and ends only after last_page.
C5_FailuresSkipped == [](C5_CardsState) /\ [][C5_Step]_vars

C5_Witness ==
    /\ pc = "cards"
    /\ page = 2
    /\ all_data = <<>>
    /\ idx = 2
    /\ cards[1].fails = "modal"
    /\ Len(page_data) = 1
    /\ page_data[1].at = <<2, 1>>

\* C6: whatever an earlier run left behind, every entry is attempted, the
\* file of an entry that succeeded holds the new download, and the manifest
\* written holds the rows of this run's successes and nothing else.
C6_RerunReplaces ==
    /\ \A i \in Tasks : futures[i].st = "done" => gets[i] = 1
    /\ \A i \in Succeeded : PathOf(i) \in DOMAIN files /\ files[PathOf(i)] = "full"
    /\ pc = "done" =>
          /\ Len(futures) = Len(entries)
          /\ manifest = <<HEADER>> \o results
          /\ \A k \in 2..Len(manifest) : \E i \in Succeeded : manifest[k] = futures[i].res

C6_Witness ==
    /\ pc = "write"
    /\ Len(manifest) = 2
    /\ manifest[2] = EarlierRow(1)
    /\ 1 \in Succeeded
    /\ gets[1] = 1
    /\ files[PathOf(1)] = "full"
    /\ 2 \in Failed

C8_Files ==
    /\ \A i, j \in 1..Len(entries) : i # j => PathOf(i) # PathOf(j)
    /\ \A p \in DOMAIN writers : Cardinality(writers[p]) <= 1 /\ \A i \in writers[p] : p = PathOf(i)
    /\ \A i \in Tasks : futures[i].st = "stream" => writers[PathOf(i)] = {i}
    /\ pc \in {"write", "done"} => {results[k] : k \in 1..Len(results)} = {RowOf(i) : i \in Succeeded}

C8_Step ==
    /\ futures' # futures => results' = results
    /\ results' # results =>
          /\ pc = "pool"
          /\ futures' = futures
          /\ \E i \in Finished : yielded' = yielded \cup {i} /\ i \notin yielded

\* C8: no two tasks open the same path, each task writes only the file named
\* after its own ID, the results list changes only in the main thread's step
\* that takes a finished future, and the rows collected are those of the
\* entries that succeeded, in whatever order the workers ran.
C8_NoSharedState == [](C8_Files) /\ [][C8_Step]_vars

C8_Witness ==
    /\ Len(futures) = 3
    /\ futures[1].st = "stream"
    /\ futures[3].st = "stream"
    /\ futures[2].st = "done"
    /\ yielded = {}

C9_State ==
    /\ driver_open => (entries = <<>> /\ futures = <<>>)
    /\ pc \in {"start", "loop", "cards", "assign"} => futures = <<>>
    /\ futures # <<>> => (page > last_page /\ Len(entries) = Len(all_data))
    /\ pc \in {"write", "done"} => (Running = {} /\ Finished = 1..Len(entries))

C9_Step == manifest' # manifest => (Running = {} /\ Finished = 1..Len(entries) /\ pc = "write")

\* C9: no download is submitted or started before the page loop has ended,
\* the browser has been quit and the IDs have been assigned, and the manifest
\* is written only when every submitted download has completed.
C9_PhasesInOrder == [](C9_State) /\ [][C9_Step]_vars

C9_Witness ==
    /\ pc = "done"
    /\ Len(futures) = 2
    /\ Succeeded = {2}
    /\ Failed = {1}
    /\ last_page = 2

\* C10: every run ends with the manifest written, header row first, and a run
\* with no successful download ends with the header row alone.
C10_ManifestWritten ==
    /\ <>(pc = "done" /\ manifest # <<>> /\ Head(manifest) = HEADER)
    /\ [](pc = "done" /\ Succeeded = {} => manifest = <<HEADER>>)

C10_Witness ==
    /\ pc = "done"
    /\ manifest = <<HEADER>>
    /\ Len(entries) = 2
    /\ Failed = {1, 2}

====
